---- MODULE Spec2Model ----
(***************************************************************************)
(* Reeler (src/reeler.js, revision v3.8R10, the first class of the file):  *)
(* the animation state machine of a vertical reel.  Public calls           *)
(* (startLoop, stopLoop, spin, spinTo), the resize listener and the frame  *)
(* callback _tick are the actions; the fields of the object and the frame  *)
(* last painted by _draw are the variables.  JavaScript numbers are        *)
(* modelled as exact rationals extended with NaN and +/-Infinity (rounding *)
(* of doubles is not modelled).                                            *)
(*                                                                         *)
(* Spec        the engine with default options, frames 0 or 1600 ms apart  *)
(* SpecLive    Spec with frames that keep being delivered                  *)
(* SpecSettle  one short spin, frames 200 or 400 ms apart                  *)
(* SpecConfig  options given to the constructor, speeds of either sign     *)
(* SpecEase    _easeOutCubic on a grid of arguments                        *)
(***************************************************************************)
EXTENDS Integers, Sequences, FiniteSets, TLC

(* ------------------------------------------------------------------ *)
(* JavaScript numbers: rationals n/d in lowest terms, NaN, +/-Infinity *)
(* ------------------------------------------------------------------ *)
Abs(x) == IF x < 0 THEN -x ELSE x

Sgn(x) == IF x < 0 THEN -1 ELSE IF x = 0 THEN 0 ELSE 1

RECURSIVE GCD(_, _)
GCD(a, b) == IF b = 0 THEN a ELSE GCD(b, a % b)

NaN == [k |-> "nan", n |-> 0, d |-> 0]

Inf(s) == [k |-> "inf", n |-> s, d |-> 0]

(* the element of a one-element set; the operators below bind their
   operands through such sets, so that each operand is evaluated once *)
Only(S) == CHOOSE r \in S : TRUE

Fin(n0, d0) ==
  Only({ Only({ IF d < 0
                THEN [k |-> "fin", n |-> (-n) \div g, d |-> (-d) \div g]
                ELSE [k |-> "fin", n |-> n \div g, d |-> d \div g]
                : g \in {GCD(Abs(n), Abs(d))} })
         : n \in {n0}, d \in {d0} })

I(n) == [k |-> "fin", n |-> n, d |-> 1]

Half == [k |-> "fin", n |-> 1, d |-> 2]

Neg(x0) ==
  Only({ IF x.k = "nan" THEN NaN ELSE [x EXCEPT !.n = -x.n] : x \in {x0} })

Add(x0, y0) ==
  Only({ IF x.k = "nan" \/ y.k = "nan" THEN NaN
         ELSE IF x.k = "inf" /\ y.k = "inf" THEN (IF x.n = y.n THEN x ELSE NaN)
         ELSE IF x.k = "inf" THEN x
         ELSE IF y.k = "inf" THEN y
         ELSE IF x.d = y.d THEN Fin(x.n + y.n, x.d)
         ELSE Only({ Fin(x.n * (y.d \div g) + y.n * (x.d \div g), (x.d \div g) * y.d)
                     : g \in {GCD(x.d, y.d)} })
         : x \in {x0}, y \in {y0} })

Sub(x, y) == Add(x, Neg(y))

Mul(x0, y0) ==
  Only({ IF x.k = "nan" \/ y.k = "nan" THEN NaN
         ELSE IF x.k = "inf" \/ y.k = "inf"
              THEN (IF x.n = 0 \/ y.n = 0 THEN NaN ELSE Inf(Sgn(x.n) * Sgn(y.n)))
         ELSE IF x.d = 1 /\ y.d = 1 THEN I(x.n * y.n)
         ELSE Only({ [k |-> "fin", n |-> (x.n \div g) * (y.n \div h),
                      d |-> (x.d \div h) * (y.d \div g)]
                     : g \in {GCD(Abs(x.n), y.d)}, h \in {GCD(Abs(y.n), x.d)} })
         : x \in {x0}, y \in {y0} })

Div(x0, y0) ==
  Only({ IF x.k = "nan" \/ y.k = "nan" THEN NaN
         ELSE IF x.k = "inf"
              THEN (IF y.k = "inf" THEN NaN
                    ELSE Inf(x.n * (IF y.n < 0 THEN -1 ELSE 1)))
         ELSE IF y.k = "inf" THEN I(0)
         ELSE IF y.n = 0 THEN (IF x.n = 0 THEN NaN ELSE Inf(Sgn(x.n)))
         ELSE Mul(x, Fin(y.d, y.n))
         : x \in {x0}, y \in {y0} })

(* x < y and x <= y as JavaScript evaluates them: false when either is NaN *)
Lt(x0, y0) ==
  \E x \in {x0}, y \in {y0} :
    /\ x.k # "nan" /\ y.k # "nan"
    /\ IF x.k = "inf" THEN x.n = -1 /\ ~(y.k = "inf" /\ y.n = -1)
       ELSE IF y.k = "inf" THEN y.n = 1
       ELSE x.n * (y.d \div GCD(x.d, y.d)) < y.n * (x.d \div GCD(x.d, y.d))

Le(x0, y0) ==
  \E x \in {x0}, y \in {y0} :
    x.k # "nan" /\ y.k # "nan" /\ (x = y \/ Lt(x, y))

(* Math.abs(x) *)
AbsN(x0) ==
  Only({ IF x.k = "nan" THEN NaN ELSE [x EXCEPT !.n = Abs(x.n)] : x \in {x0} })

(* Math.min(x, y) *)
MinN(x0, y0) ==
  Only({ IF x.k = "nan" \/ y.k = "nan" THEN NaN
         ELSE IF Lt(y, x) THEN y ELSE x
         : x \in {x0}, y \in {y0} })

(* a % b on integers, b > 0: the remainder takes the sign of the dividend *)
JsRem(a, b) == IF a >= 0 THEN a % b ELSE -((-a) % b)

(* the integer part of a finite x, rounded towards zero *)
Trunc(x0) == Only({ Sgn(x.n) * (Abs(x.n) \div x.d) : x \in {x0} })

(* x % y on numbers: the remainder takes the sign of the dividend *)
Rem(x0, y0) ==
  Only({ IF x.k # "fin" \/ y.k = "nan" THEN NaN
         ELSE IF y.k = "inf" THEN x
         ELSE IF y.n = 0 THEN NaN
         ELSE Fin(JsRem(x.n * y.d, Abs(y.n) * x.d), x.d * y.d)
         : x \in {x0}, y \in {y0} })

(* ------------------------------------------------------------------ *)
(* Configuration and inputs                                            *)
(* ------------------------------------------------------------------ *)
Items == <<"A", "B", "C", "B", "E">>

ItemCount == Len(Items)

DefaultSpeed == 1500

DefaultRotations == 6

HighlightDelay == 400

MsPerSec == 1000

HighlightAnimDuration == 1200

LineSpacing == Fin(5, 4)

ZoomScale == Fin(9, 5)

FadeOutAlpha == Fin(1, 5)

DefaultFadeGradientAlpha == Fin(3, 5)

(* window.innerHeight, which _resize copies to canvas.height *)
CanvasHeight == 600

(* ascent + descent that measureText("Hg") may report *)
FontHeights == {120, 80}

(* startLoop(speedPxPerSec): 0 stands for an omitted (falsy) argument *)
SpeedArgs == {0, 3000}

(* spin(targetIndex): <<>> stands for an omitted index *)
TargetArgs == {<<>>, <<-1>>, <<0>>, <<2>>, <<7>>}

(* { rotations }: <<>> stands for an omitted option *)
RotationArgs == {<<>>, <<0>>}

Labels == {"B", "Z"}

(* driver: milliseconds between two delivered frames, and the last timestamp *)
FrameSteps == {0, 1600}

MaxTime == 8000

(* public calls and resize events made on one engine *)
MaxCalls == 2

Null == -1

(* an option of the constructor: <<>> when omitted, else <<value>> *)
NoOpts == [speed |-> <<>>, fadeGradientAlpha |-> <<>>]

Modes == {"idle", "loop", "spin", "pause", "highlight"}

VARIABLES
  speed,           \* this.speed
  lineHeight,      \* this._lineHeight
  mode,            \* this._mode
  offset,          \* this._offset
  targetIdx,       \* this._targetIdx
  spinStart,       \* this._spinStart
  spinT,           \* this._spinT
  accel,           \* this._accel
  spinDist,        \* this._spinDist
  pauseStart,      \* this._pauseStart
  highlightStart,  \* this._highlightStart
  prevTS,          \* this._prevTS
  raf,             \* this._raf: 0 while undefined, else a request id (non-zero)
  pending,         \* frame callbacks requested and not yet delivered
  fadeGradientAlpha, \* this.fadeGradientAlpha
  canvas,          \* what the last _draw painted
  easing,          \* the last _easeOutCubic call: <<argument, result>>
  opts,            \* the options the constructor was given
  spinLineHeight,  \* this._lineHeight as the last spin() read it
  now,             \* timestamp of the last delivered frame
  calls,           \* public calls and resize events so far
  onStopCalls,     \* arguments of the onStop invocations so far
  call,            \* the operation that acted last, its arguments and result
  resume           \* progress of a stopLoop -> startLoop/spin -> first frame episode

reel == <<speed, lineHeight, mode, offset, targetIdx, spinStart, spinT, accel,
          spinDist, pauseStart, highlightStart, prevTS>>

(* the style configuration and what is painted *)
paint == <<fadeGradientAlpha, canvas, easing, opts>>

vars == <<speed, lineHeight, mode, offset, targetIdx, spinStart, spinT, accel,
          spinDist, pauseStart, highlightStart, prevTS, raf, pending, now,
          calls, onStopCalls, call, resume, fadeGradientAlpha, canvas, easing,
          opts, spinLineHeight>>

Call(op, target, label, rot, ret) ==
  [op |-> op, target |-> target, label |-> label, rot |-> rot, ret |-> ret]

NoResume == [via |-> "none", from |-> "none", x |-> I(0)]

(* ------------------------------------------------------------------ *)
(* Pure computations of the class                                      *)
(* ------------------------------------------------------------------ *)
LineHeightOf(fontHeight) == Mul(I(fontHeight), LineSpacing)

NormIndexRemainderOnly(k) == JsRem(k, ItemCount)

NormIndex(k) == JsRem(JsRem(k, ItemCount) + ItemCount, ItemCount)

Rotations(rot) == IF rot = <<>> THEN DefaultRotations ELSE rot[1]

Cycle(lh) == Mul(I(ItemCount), lh)

SpinDistWholeTurns(rotations, idx, lh) == Mul(I(rotations), Cycle(lh))

SpinDistOf(rotations, idx, lh) ==
  Add(Mul(I(rotations), Cycle(lh)), Mul(I(idx), lh))

AccelOf(v0, dist) == Div(Mul(I(v0), I(v0)), Mul(I(2), dist))

SpinTOf(v0, a) == Div(I(v0), a)

Seconds(ms) == Div(I(ms), I(MsPerSec))

SpinOffsetWithoutHalf(v0, a, t) == Sub(Mul(I(v0), t), Mul(Mul(a, t), t))

SpinOffset(v0, a, t0) ==
  Only({ Sub(Mul(I(v0), t), Mul(Mul(Mul(Half, a), t), t)) : t \in {t0} })

LoopOffset(off, v, dt) == Add(off, Mul(I(v), dt))

RECURSIVE IndexFrom(_, _)
IndexFrom(label, i) ==
  IF i > ItemCount THEN -1
  ELSE IF Items[i] = label THEN i - 1
  ELSE IndexFrom(label, i + 1)

RECURSIVE IndexBackFrom(_, _)
IndexBackFrom(label, i) ==
  IF i < 1 THEN -1
  ELSE IF Items[i] = label THEN i - 1
  ELSE IndexBackFrom(label, i - 1)

LastIndexOf(label) == IndexBackFrom(label, ItemCount)

IndexOfOrFirst(label) == IF IndexFrom(label, 1) = -1 THEN 0 ELSE IndexFrom(label, 1)

IndexOf(label) == IndexFrom(label, 1)

(* opts.speed || 1500 *)
SpeedOf(o) == IF o = <<>> \/ o[1] = 0 THEN DefaultSpeed ELSE o[1]

(* opts.fadeGradientAlpha || 0.6 *)
FadeGradientAlphaOf(o) ==
  IF o = <<>> \/ o[1] = I(0) THEN DefaultFadeGradientAlpha ELSE o[1]

(* Math.pow(x, 3) *)
Pow3(x0) == Only({ Mul(Mul(x, x), x) : x \in {x0} })

EaseInCubic(t) == Pow3(t)

EaseOutCubic(t) == Sub(I(1), Pow3(Sub(I(1), t)))

(* ((offset % cycle) + cycle) % cycle *)
OffsetMod(off, lh) ==
  Only({ Rem(Add(Rem(off, cycle), cycle), cycle) : cycle \in {Cycle(lh)} })

(* zoomP of _draw(ts, offsetMod); in highlight mode ts is positive, so that
   `ts || performance.now()` is ts *)
ZoomP(m, ts, hs) ==
  IF m = "highlight"
  THEN MinN(I(1), Div(I(ts - (IF hs = Null THEN 0 ELSE hs)), I(HighlightAnimDuration)))
  ELSE I(0)

(* the gradients _draw creates and fills for the vignette *)
Gradients(fga) == IF Lt(I(0), fga) THEN 2 ELSE 0

CenterY == Div(I(CanvasHeight), I(2))

(* the scale of a zoomed row at progress p *)
ZoomOf(p) == Add(I(1), Mul(Sub(ZoomScale, I(1)), EaseOutCubic(p)))

(* whether a row of highlight mode is zoomed: any row in the centre is *)
ZoomedRow(inCenter, idx, tIdx) == inCenter

(* what the loop of _draw paints at counter i, whose row is at height y0:
   nothing when the row is off the canvas *)
RowAt(i, m, y0, lh, z, tIdx) ==
  Only({ IF Lt(y, Neg(lh)) \/ Lt(Add(I(CanvasHeight), lh), y) THEN {}
         ELSE IF m = "highlight"
                 /\ ZoomedRow(Lt(AbsN(Sub(y, CenterY)), Mul(lh, Half)),
                              i % ItemCount, tIdx)
              THEN {[i |-> i, idx |-> i % ItemCount, y |-> y, zoomed |-> TRUE,
                     scale |-> z, alpha |-> I(1)]}
              ELSE {[i |-> i, idx |-> i % ItemCount, y |-> y, zoomed |-> FALSE,
                     scale |-> I(1),
                     alpha |-> IF m = "highlight" THEN FadeOutAlpha ELSE I(1)]}
         : y \in {y0} })

(* the rows painted in frame f, a frame as Draw below records it *)
Rows(f) ==
  UNION { RowAt(i, f.mode,
                Sub(Add(baseY, Mul(I(i), f.lineHeight)), Mul(I(ItemCount), f.lineHeight)),
                f.lineHeight, z, f.targetIdx)
          : i \in 0 .. 3 * ItemCount - 1,
            baseY \in {Sub(CenterY, f.offsetMod)},
            z \in {ZoomOf(f.zoomP)} }

(* before the first frame nothing is painted *)
NoFrame ==
  [mode |-> "none", offsetMod |-> I(0), zoomP |-> I(0), gradients |-> 0,
   lineHeight |-> I(0), targetIdx |-> 0]

(* _draw(ts, offsetMod), with offsetMod as _tick computes it: the frame is
   recorded by what _draw reads and computes before its loop over the rows;
   Rows gives the rows that loop paints *)
Draw(m, ts, off, lh, hs, tIdx, fga) ==
  [mode |-> m, offsetMod |-> OffsetMod(off, lh), zoomP |-> ZoomP(m, ts, hs),
   gradients |-> Gradients(fga), lineHeight |-> lh, targetIdx |-> tIdx]

(* the last _easeOutCubic call once frame f is painted: _draw calls it for
   every zoomed row *)
EasingAfter(f, e) ==
  IF f.mode = "highlight" /\ \E r \in Rows(f) : r.zoomed
  THEN <<f.zoomP, EaseOutCubic(f.zoomP)>>
  ELSE e

(* this._raf ||= requestAnimationFrame(...): a request is made only while
   _raf is falsy; the id returned is non-zero *)
RafAfterStart(r) == IF r = 0 THEN 1 ELSE r

PendingAlwaysRequested(r, p) == p + 1

PendingAfterStart(r, p) == IF r = 0 THEN p + 1 ELSE p

(* ------------------------------------------------------------------ *)
(* State after new Reeler(canvas, Items, opts)                         *)
(* ------------------------------------------------------------------ *)
InitWith(o) ==
  /\ opts = o
  /\ speed = SpeedOf(o.speed)
  /\ fadeGradientAlpha = FadeGradientAlphaOf(o.fadeGradientAlpha)
  /\ canvas = NoFrame
  /\ easing = <<>>
  /\ spinLineHeight = I(0)
  /\ \E fh \in FontHeights : lineHeight = LineHeightOf(fh)
  /\ mode = "loop"
  /\ offset = I(0)
  /\ targetIdx = 0
  /\ spinStart = Null
  /\ spinT = I(0)
  /\ accel = I(0)
  /\ spinDist = I(0)
  /\ pauseStart = Null
  /\ highlightStart = Null
  /\ prevTS = Null
  /\ raf = RafAfterStart(0)
  /\ pending = PendingAfterStart(0, 0)
  /\ now = 0
  /\ calls = 0
  /\ onStopCalls = <<>>
  /\ call = Call("constructor", <<>>, "", <<>>, TRUE)
  /\ resume = NoResume

Init == InitWith(NoOpts)

(* ------------------------------------------------------------------ *)
(* Public API                                                          *)
(* ------------------------------------------------------------------ *)
AnchorKept(p) == p

(* this._prevTS after startLoop: the elapsed-time anchor is cleared *)
AnchorAfterStart(p) == Null

startLoop(s) ==
  /\ speed' = IF s # 0 THEN s ELSE speed
  /\ mode' = "loop"
  /\ prevTS' = AnchorAfterStart(prevTS)
  /\ raf' = RafAfterStart(raf)
  /\ pending' = PendingAfterStart(raf, pending)
  /\ call' = Call("startLoop", <<s>>, "", <<>>, TRUE)
  /\ resume' = IF resume.via \in {"stopLoop", "startLoop", "spin"}
               THEN [resume EXCEPT !.via = "startLoop"] ELSE NoResume
  /\ UNCHANGED <<lineHeight, offset, targetIdx, spinStart, spinT, accel,
                 spinDist, pauseStart, highlightStart, now, onStopCalls, paint,
                 spinLineHeight>>

stopLoop ==
  /\ mode' = "idle"
  /\ call' = Call("stopLoop", <<>>, "", <<>>, TRUE)
  /\ resume' = [via |-> "stopLoop", from |-> mode, x |-> offset]
  /\ UNCHANGED <<speed, lineHeight, offset, targetIdx, spinStart, spinT, accel,
                 spinDist, pauseStart, highlightStart, prevTS, raf, pending,
                 now, onStopCalls, paint, spinLineHeight>>

(* the body of spin(targetIndex, {rotations}) once the target is resolved to
   idx *)
SpinBody(idx, rot) ==
  /\ targetIdx' = idx
  /\ spinLineHeight' = lineHeight
  /\ spinDist' = SpinDistOf(Rotations(rot), idx, lineHeight)
  /\ accel' = AccelOf(speed, spinDist')
  /\ spinT' = SpinTOf(speed, accel')
  /\ spinStart' = Null
  /\ mode' = "spin"
  /\ resume' = IF resume.via \in {"stopLoop", "startLoop", "spin"}
               THEN [resume EXCEPT !.via = "spin"] ELSE NoResume
  /\ UNCHANGED <<speed, lineHeight, offset, pauseStart, highlightStart, prevTS,
                 raf, pending, now, onStopCalls, paint>>

spin(target, rot) ==
  /\ call' = Call("spin", target, "", rot, TRUE)
  /\ IF target = <<>>
     THEN \E r \in 0 .. ItemCount - 1 : SpinBody(r, rot)
     ELSE SpinBody(NormIndex(target[1]), rot)

spinTo(label, rot) ==
  LET idx == IndexOf(label)
  IN  IF idx = -1
      THEN /\ call' = Call("spinTo", <<>>, label, rot, FALSE)
           /\ UNCHANGED <<reel, raf, pending, now, onStopCalls, resume, paint,
                          spinLineHeight>>
      ELSE /\ call' = Call("spinTo", <<>>, label, rot, TRUE)
           /\ SpinBody(NormIndex(idx), rot)

(* ------------------------------------------------------------------ *)
(* Internals                                                           *)
(* ------------------------------------------------------------------ *)
resize(fh) ==
  /\ lineHeight' = LineHeightOf(fh)
  /\ call' = Call("resize", <<fh>>, "", <<>>, TRUE)
  /\ UNCHANGED <<speed, mode, offset, targetIdx, spinStart, spinT, accel,
                 spinDist, pauseStart, highlightStart, prevTS, raf, pending,
                 now, onStopCalls, resume, paint, spinLineHeight>>

(* arguments onStop receives during _tick(ts): none, the hook is never invoked *)
OnStopDuringTick(m, m2, idx) == <<>>

RestingOffsetAdvancing(off, v, dt) == LoopOffset(off, v, dt)

(* the offset after a frame in a mode the switch has no case for (idle), and
   in highlight, whose case is empty *)
RestingOffset(off, v, dt) == off

AnchorAtFirstFrame(p0, ts) == p0

(* this._prevTS after a frame of timestamp ts, p0 being the anchor the frame
   measured its elapsed time from *)
AnchorAfterFrame(p0, ts) == ts

PauseOverStrictly(ts, ps) == ts - ps > HighlightDelay

(* whether the pause that began at ps is over at a frame of timestamp ts *)
PauseOver(ts, ps) == ts - ps >= HighlightDelay

ModeAfterHighlightAnim(m, ts, hs) ==
  IF ts - hs >= HighlightAnimDuration THEN "loop" ELSE m

(* the mode after a frame processed in highlight: the case is empty *)
ModeAfterHighlightFrame(m, ts, hs) == m

tick(ts) ==
  LET p0 == IF prevTS = Null THEN ts ELSE prevTS
      dt == Seconds(ts - p0)
      s0 == IF spinStart = Null THEN ts ELSE spinStart
      t  == Seconds(ts - s0)
  IN
  /\ pending > 0
  /\ now' = ts
  /\ CASE mode = "loop" ->
            /\ offset' = LoopOffset(offset, speed, dt)
            /\ UNCHANGED <<mode, spinStart, pauseStart, highlightStart>>
       [] mode = "spin" ->
            /\ spinStart' = s0
            /\ IF Le(t, spinT)
               THEN /\ offset' = SpinOffset(speed, accel, t)
                    /\ UNCHANGED <<mode, pauseStart>>
               ELSE /\ offset' = spinDist
                    /\ mode' = "pause"
                    /\ pauseStart' = ts
            /\ UNCHANGED highlightStart
       [] mode = "pause" ->
            /\ IF PauseOver(ts, pauseStart)
               THEN /\ mode' = "highlight"
                    /\ highlightStart' = ts
               ELSE UNCHANGED <<mode, highlightStart>>
            /\ UNCHANGED <<offset, spinStart, pauseStart>>
       [] mode = "highlight" ->
            /\ offset' = RestingOffset(offset, speed, dt)
            /\ mode' = ModeAfterHighlightFrame(mode, ts, highlightStart)
            /\ UNCHANGED <<spinStart, pauseStart, highlightStart>>
       [] OTHER ->
            /\ offset' = RestingOffset(offset, speed, dt)
            /\ UNCHANGED <<mode, spinStart, pauseStart, highlightStart>>
  /\ onStopCalls' = onStopCalls \o OnStopDuringTick(mode, mode', targetIdx)
  /\ canvas' = Draw(mode', ts, offset', lineHeight, highlightStart', targetIdx,
                    fadeGradientAlpha)
  /\ easing' = EasingAfter(canvas', easing)
  /\ prevTS' = AnchorAfterFrame(p0, ts)
  /\ IF mode' # "idle"
     THEN /\ raf' = 1
          /\ pending' = pending
     ELSE /\ raf' = raf
          /\ pending' = pending - 1
  /\ call' = Call("tick", <<ts>>, "", <<>>, TRUE)
  /\ resume' = IF resume.via = "stopLoop" THEN resume
               ELSE IF resume.via = "startLoop" THEN [resume EXCEPT !.via = "firstLoop"]
               ELSE IF resume.via = "spin" THEN [resume EXCEPT !.via = "firstSpin"]
               ELSE NoResume
  /\ UNCHANGED <<speed, lineHeight, targetIdx, spinT, accel, spinDist, calls,
                 fadeGradientAlpha, opts, spinLineHeight>>

Called == calls < MaxCalls /\ calls' = calls + 1

Next ==
  \/ \E s \in SpeedArgs : Called /\ startLoop(s)
  \/ Called /\ stopLoop
  \/ \E target \in TargetArgs, rot \in RotationArgs : Called /\ spin(target, rot)
  \/ \E label \in Labels, rot \in RotationArgs : Called /\ spinTo(label, rot)
  \/ \E fh \in FontHeights : Called /\ resize(fh)
  \/ \E step \in FrameSteps : now + step <= MaxTime /\ tick(now + step)

Spec == Init /\ [][Next]_vars

(* ------------------------------------------------------------------ *)
(* The engine with a driver that keeps delivering requested frames:    *)
(* while a frame request is pending, a frame with a later timestamp    *)
(* is eventually delivered (up to MaxTime)                             *)
(* ------------------------------------------------------------------ *)
FrameDelivered ==
  \E step \in FrameSteps \ {0} : now + step <= MaxTime /\ tick(now + step)

SpecLive == Init /\ [][Next]_vars /\ WF_vars(FrameDelivered)

(* ------------------------------------------------------------------ *)
(* The engine driven at a fine frame rate through one short spin       *)
(* ------------------------------------------------------------------ *)
SettleSteps == {200, 400}

SettleTime == 3000

SettleTargetArgs == {<<2>>}

SettleRotationArgs == {<<0>>}

SettleSpeedArgs == {0}

NextSettle ==
  \/ \E s \in SettleSpeedArgs : Called /\ startLoop(s)
  \/ Called /\ stopLoop
  \/ \E target \in SettleTargetArgs, rot \in SettleRotationArgs :
       Called /\ spin(target, rot)
  \/ \E fh \in FontHeights : Called /\ resize(fh)
  \/ \E step \in SettleSteps : now + step <= SettleTime /\ tick(now + step)

SpecSettle == Init /\ [][NextSettle]_vars

(* ------------------------------------------------------------------ *)
(* The engine under any configuration: options given to the            *)
(* constructor, and speeds of either sign given to startLoop           *)
(* ------------------------------------------------------------------ *)
SpeedOpts == {<<>>, <<0>>, <<-1500>>}

FadeGradientAlphaOpts == {<<>>, <<I(0)>>, <<Half>>}

OptsArgs == [speed : SpeedOpts, fadeGradientAlpha : FadeGradientAlphaOpts]

ConfigSpeedArgs == {0, -3000}

ConfigTargetArgs == {<<2>>}

ConfigRotationArgs == {<<0>>}

ConfigLabels == {"B"}

InitConfig == \E o \in OptsArgs : InitWith(o)

NextConfig ==
  \/ \E s \in ConfigSpeedArgs : Called /\ startLoop(s)
  \/ Called /\ stopLoop
  \/ \E target \in ConfigTargetArgs, rot \in ConfigRotationArgs :
       Called /\ spin(target, rot)
  \/ \E label \in ConfigLabels, rot \in ConfigRotationArgs :
       Called /\ spinTo(label, rot)
  \/ \E step \in FrameSteps : now + step <= MaxTime /\ tick(now + step)

SpecConfig == InitConfig /\ [][NextConfig]_vars

(* ------------------------------------------------------------------ *)
(* The easing curve on its own: _easeOutCubic called with the          *)
(* arguments i/EaseGrid, i in 0 .. EaseGrid                            *)
(* ------------------------------------------------------------------ *)
EaseGrid == 128

EaseArgs == { Fin(i, EaseGrid) : i \in 0 .. EaseGrid }

easeOutCubicCall(t) ==
  /\ easing' = <<t, EaseOutCubic(t)>>
  /\ UNCHANGED <<reel, raf, pending, now, calls, onStopCalls, call, resume,
                 fadeGradientAlpha, canvas, opts, spinLineHeight>>

NextEase == \E t \in EaseArgs : easeOutCubicCall(t)

SpecEase == Init /\ [][NextEase]_vars

(* ------------------------------------------------------------------ *)
(* Properties                                                          *)
(* ------------------------------------------------------------------ *)
Positive(x) == Lt(I(0), x)

(* C1: every frame that takes the reel from spin to pause (completing a spin
   of positive distance) invokes onStop exactly once, with the resolved
   target index; no other step of the engine invokes it. *)
C1_OnStopOnceAtPause ==
  [][IF mode = "spin" /\ mode' = "pause"
     THEN Positive(spinDist) => onStopCalls' = Append(onStopCalls, targetIdx)
     ELSE onStopCalls' = onStopCalls]_vars

(* a spin that ran to completion *)
C1_SpinCompleted == call.op = "tick" /\ mode = "pause" /\ pauseStart = now

(* C2: right after any startLoop() call the mode is loop and a frame request
   is pending (so a loop frame will be delivered). *)
C2_StartLoopSchedulesFrame ==
  call.op = "startLoop" => mode = "loop" /\ pending >= 1

(* C3: after stopLoop() in loop mode at offset X and a later startLoop(), the
   offset is still X (never reset to 0) up to and including the first frame
   processed in loop mode; every loop frame that has a previous frame adds
   speed x (time since that frame) to the offset. *)
C3_LoopResumesFromFrozenOffset ==
  [][/\ (resume'.from = "loop" /\ resume'.via \in {"stopLoop", "startLoop", "firstLoop"}
           => offset' = resume'.x)
     /\ (call'.op = "tick" /\ mode = "loop" /\ prevTS # Null
           => offset' = Add(offset, Div(Mul(I(speed), I(now' - prevTS)), I(1000))))]_vars

(* the first loop frame after stopLoop() at X > 0 and startLoop() *)
C3_ResumedAtFrozenOffset ==
  /\ resume.via = "firstLoop" /\ resume.from = "loop"
  /\ call.op = "tick" /\ mode = "loop"
  /\ Positive(resume.x) /\ offset = resume.x

(* C4: stopLoop() leaves the offset unchanged in whatever mode it is called,
   and every frame processed while the mode is idle leaves the offset and the
   mode unchanged. *)
C4_StopLoopFreezesOffset ==
  [][/\ (call'.op = "stopLoop" => offset' = offset /\ mode' = "idle")
     /\ (call'.op = "tick" /\ mode = "idle" => offset' = offset /\ mode' = "idle")]_vars

(* a frame processed in idle after stopLoop() interrupted a spin under way *)
C4_IdleFrameAfterStop ==
  /\ call.op = "tick" /\ mode = "idle"
  /\ resume.via = "stopLoop" /\ resume.from = "spin"
  /\ Positive(offset) /\ offset = resume.x

(* C5: the first frame processed in spin mode after stopLoop() froze the
   offset at X > 0 and spin() was called (with a positive spin distance)
   leaves the offset at X. *)
C5_SpinResumesFromFrozenOffset ==
  resume.via = "firstSpin" /\ Positive(resume.x) /\ Positive(spinDist)
    => offset = resume.x

(* the first spin frame after stopLoop() at X > 0 and spin() *)
C5_FirstSpinFrameAfterStop ==
  resume.via = "firstSpin" /\ Positive(resume.x) /\ mode = "spin"

SpinCall(c) == c.op = "spin" \/ (c.op = "spinTo" /\ c.ret)

(* C6: for every spin with positive speed and distance, D = rotations x
   itemCount x lineHeight + targetIndex x lineHeight, a = v0^2/(2D),
   T = v0/a, D mod cycleLength = targetIndex x lineHeight and v0*T - a*T^2/2
   = D; a frame at t = T leaves the offset at D, a frame at t > T sets the
   offset to D and the mode to pause; 5 items, speed 1500, lineHeight 150,
   rotations 6 and target 2 give D = 4800, a = 234.375 and T = 6.4. *)
C6_SpinStopsAtDistance ==
  [][/\ (SpinCall(call') /\ speed' > 0 /\ Positive(spinDist') =>
           LET n  == Rotations(call'.rot)
               v0 == I(speed')
               T  == spinT'
           IN  /\ spinDist' = Add(Mul(I(n * ItemCount), lineHeight'),
                                  Mul(I(targetIdx'), lineHeight'))
               /\ accel' = Div(Mul(v0, v0), Mul(I(2), spinDist'))
               /\ T = Div(v0, accel')
               /\ Sub(Mul(v0, T), Div(Mul(accel', Mul(T, T)), I(2))) = spinDist'
               /\ Rem(spinDist', Mul(I(ItemCount), lineHeight'))
                    = Mul(I(targetIdx'), lineHeight')
               /\ (speed' = 1500 /\ lineHeight' = I(150) /\ n = 6 /\ targetIdx' = 2
                     => /\ spinDist' = I(4800)
                        /\ accel' = Fin(234375, 1000)
                        /\ T = Fin(64, 10)))
     /\ (call'.op = "tick" /\ mode = "spin" /\ speed > 0 /\ Positive(spinDist) =>
           \A t \in {Div(I(now' - (IF spinStart = Null THEN now' ELSE spinStart)),
                         I(1000))} :
               /\ (t = spinT => offset' = spinDist)
               /\ (Lt(spinT, t) => offset' = spinDist /\ mode' = "pause")
               /\ (Lt(t, spinT) => mode' = "spin"))]_vars

(* the frame at t = T = 6.4 s of the spin of 4800 px at 1500 px/s *)
C6_FrameAtSpinDuration ==
  /\ call.op = "tick" /\ mode = "spin"
  /\ speed = 1500 /\ spinDist = I(4800) /\ targetIdx = 2
  /\ now - spinStart = 6400 /\ offset = I(4800)

(* C7: every frame processed in spin mode leaves the offset at most
   spinDistance, and at least the offset the previous frame of that spin
   left. *)
C7_SpinOffsetMonotone ==
  [][call'.op = "tick" /\ mode = "spin" =>
       /\ Le(offset', spinDist)
       /\ (spinStart # Null => Le(offset, offset'))]_vars

(* a spin frame after the first one that advanced the offset *)
C7_SpinFrameAdvanced ==
  /\ call.op = "tick" /\ mode = "spin" /\ now > spinStart /\ spinStart # Null
  /\ Positive(offset) /\ Lt(offset, spinDist)

InItems(label) == \E i \in 1 .. ItemCount : Items[i] = label

(* C8: spinTo(label) with a label that is not an item returns false and
   changes no field of the reel, nor the frame scheduling. *)
C8_SpinToUnknownLabel ==
  [][call'.op = "spinTo" /\ ~InItems(call'.label) =>
       /\ call'.ret = FALSE
       /\ reel' = reel
       /\ <<raf, pending, onStopCalls>>' = <<raf, pending, onStopCalls>>
       /\ paint' = paint]_vars

(* spinTo of an unknown label during a spin under way *)
C8_UnknownLabelMidSpin ==
  /\ call.op = "spinTo" /\ call.label = "Z" /\ call.ret = FALSE
  /\ mode = "spin" /\ spinStart # Null /\ Positive(offset)

(* the index of the first item equal to label *)
FirstIndex(label) ==
  CHOOSE i \in 0 .. ItemCount - 1 :
    Items[i + 1] = label /\ \A j \in 0 .. i - 1 : Items[j + 1] # label

(* C9: spinTo(label, opts) with a label that is an item returns true and
   leaves the reel as spin(i, opts) would, i the first index of the label. *)
C9_SpinToKnownLabel ==
  [][call'.op = "spinTo" /\ InItems(call'.label) =>
       /\ call'.ret = TRUE
       /\ SpinBody(NormIndex(FirstIndex(call'.label)), call'.rot)]_vars

(* spinTo("B"): "B" is the item at indices 1 and 3 *)
C9_SpinToDuplicateLabel ==
  /\ call.op = "spinTo" /\ call.label = "B" /\ call.ret = TRUE
  /\ mode = "spin" /\ targetIdx = 1 /\ spinStart = Null

(* the mathematical k mod itemCount *)
TrueMod(k) ==
  CHOOSE r \in 0 .. ItemCount - 1 : \E q \in -Abs(k) - 1 .. Abs(k) + 1 : k = q * ItemCount + r

(* C10: spin(k) with an integer k sets targetIndex to k mod itemCount, and
   targetIndex is in [0, itemCount) in every reachable state. *)
C10_TargetIndexInRange ==
  /\ targetIdx \in 0 .. ItemCount - 1
  /\ [][/\ targetIdx' \in 0 .. ItemCount - 1
        /\ (call'.op = "spin" /\ call'.target # <<>>
              => targetIdx' = TrueMod(call'.target[1]))]_vars

(* spin(-1) with 5 items *)
C10_NegativeIndexWrapped ==
  call.op = "spin" /\ call.target = <<-1>> /\ targetIdx = 4 /\ mode = "spin"

Finite(x) == x.k = "fin"

(* C11: offset >= 0 in every reachable state, whatever speeds the
   constructor and startLoop were given. *)
C11_OffsetNonNegative == Le(I(0), offset)

(* a loop frame that moved the offset down, at a negative speed *)
C11_LoopFrameAtNegativeSpeed ==
  call.op = "tick" /\ mode = "loop" /\ speed < 0 /\ Lt(offset, I(0))

(* C12: the wrapped offset handed to _draw on every frame is a number in
   [0, cycleLength). *)
C12_WrappedOffsetInRange ==
  call.op = "tick" =>
    Le(I(0), canvas.offsetMod) /\ Lt(canvas.offsetMod, Cycle(canvas.lineHeight))

(* a loop frame whose stored offset has passed one cycle *)
C12_LoopFrameWrapped ==
  /\ call.op = "tick" /\ mode = "loop" /\ Lt(Cycle(lineHeight), offset)
  /\ Lt(canvas.offsetMod, Cycle(lineHeight))

(* C13: a spin never runs at a speed that is not positive (such a speed is
   rejected at construction or when spin is invoked), and offset,
   spinDistance, deceleration and spinDuration are finite numbers in every
   reachable state. *)
C13_BadConfigRejected ==
  /\ (mode = "spin" => speed > 0)
  /\ Finite(offset) /\ Finite(spinDist) /\ Finite(accel) /\ Finite(spinT)

(* a spin under way at a negative speed *)
C13_SpinAtNegativeSpeed ==
  mode = "spin" /\ speed < 0 /\ SpinCall(call) /\ Lt(spinT, I(0))

(* whether row r of frame f is within half a lineHeight of the vertical
   centre and shows the target item *)
CentredTarget(f, r) ==
  Lt(AbsN(Sub(r.y, CenterY)), Div(f.lineHeight, I(2))) /\ r.idx = f.targetIdx

(* C14: in a frame painted in highlight mode, only a row within half a
   lineHeight of the centre whose item index is targetIndex is zoomed; every
   other painted row has scale 1 and opacity fadeOutAlpha. *)
C14_ZoomOnlyCentredTarget ==
  canvas.mode = "highlight" =>
    \A r \in Rows(canvas) :
      /\ (r.zoomed => CentredTarget(canvas, r))
      /\ (~CentredTarget(canvas, r) => r.scale = I(1) /\ r.alpha = FadeOutAlpha)

(* a highlight frame that zooms a centred row showing another item than the
   target *)
C14_ZoomedOtherItem ==
  /\ call.op = "tick" /\ canvas.mode = "highlight"
  /\ \E r \in Rows(canvas) : r.zoomed /\ r.idx # targetIdx /\ r.alpha = I(1)

(* (now - highlightStart) / highlightAnimDuration clamped to [0, 1] *)
Progress(ts, hs) ==
  IF ts - hs <= 0 THEN I(0)
  ELSE IF ts - hs >= HighlightAnimDuration THEN I(1)
  ELSE Fin(ts - hs, HighlightAnimDuration)

(* C15: every frame painted in highlight mode has progress p = clamp((now -
   highlightStart)/highlightAnimDuration, 0, 1); p is 0 on the frame that
   enters highlight and never decreases from one highlight frame to the
   next; once now - highlightStart >= highlightAnimDuration the centred
   target row is painted at scale zoomScale and every other painted row at
   opacity fadeOutAlpha. *)
C15_HighlightProgress ==
  [][call'.op = "tick" /\ mode' = "highlight" =>
       /\ canvas'.zoomP = Progress(now', highlightStart')
       /\ (mode # "highlight" => canvas'.zoomP = I(0))
       /\ (mode = "highlight" => Le(canvas.zoomP, canvas'.zoomP))
       /\ (now' - highlightStart' >= HighlightAnimDuration =>
             \A r \in Rows(canvas') :
               IF CentredTarget(canvas', r)
               THEN r.scale = ZoomScale
               ELSE r.alpha = FadeOutAlpha)]_vars

(* a highlight frame at full progress, after frames at progress 0 and in
   between *)
C15_ZoomComplete ==
  /\ call.op = "tick" /\ mode = "highlight" /\ canvas.zoomP = I(1)
  /\ now - highlightStart = HighlightAnimDuration
  /\ \E r \in Rows(canvas) : r.zoomed /\ r.scale = ZoomScale

PublicCalls == {"startLoop", "stopLoop", "spin", "spinTo"}

(* C16: a frame processed in highlight mode changes neither the mode nor the
   offset, and the mode leaves highlight only in a step that is a public
   call. *)
C16_HighlightRests ==
  [][mode = "highlight" =>
       /\ (call'.op = "tick" => mode' = "highlight" /\ offset' = offset)
       /\ (mode' # "highlight" => call'.op \in PublicCalls)]_vars

(* the third frame, at least, processed in highlight mode, the zoom animation
   long over *)
C16_HighlightFramesDelivered ==
  /\ call.op = "tick" /\ mode = "highlight" /\ offset = spinDist
  /\ now - highlightStart >= 2 * HighlightAnimDuration

(* C17: in pause the offset is spinDistance; pauseStart is the timestamp of
   the frame that took the reel from spin to pause; a frame processed in
   pause moves to highlight, setting highlightStart to its timestamp, if
   that timestamp is at least highlightDelay after pauseStart, and otherwise
   leaves the mode and highlightStart as they are; highlight is entered in no
   other way. *)
C17_PauseHoldsForDelay ==
  [][/\ (mode' = "pause" => offset' = spinDist')
     /\ (mode # "pause" /\ mode' = "pause" =>
           mode = "spin" /\ call'.op = "tick" /\ pauseStart' = now')
     /\ (mode = "pause" /\ mode' = "pause" => pauseStart' = pauseStart)
     /\ (mode = "pause" /\ call'.op = "tick" =>
           IF now' - pauseStart >= 400
           THEN mode' = "highlight" /\ highlightStart' = now'
           ELSE mode' = "pause" /\ highlightStart' = highlightStart)
     /\ (mode # "highlight" /\ mode' = "highlight" =>
           mode = "pause" /\ call'.op = "tick")]_vars

(* highlight entered by the frame exactly highlightDelay after the pause
   began *)
C17_HighlightAtDelay ==
  /\ call.op = "tick" /\ mode = "highlight" /\ highlightStart = now
  /\ now - pauseStart = HighlightDelay
  /\ canvas.zoomP = I(0) /\ offset = spinDist /\ Positive(spinDist)

(* C18: when the constructor was given fadeGradientAlpha = 0, no frame
   creates or fills a gradient of the vignette. *)
C18_NoVignetteAtAlphaZero ==
  opts.fadeGradientAlpha = <<I(0)>> => canvas.gradients = 0

(* a frame painted by an engine constructed with fadeGradientAlpha = 0 *)
C18_FramePaintedAtAlphaZero ==
  /\ opts.fadeGradientAlpha = <<I(0)>> /\ call.op = "tick"
  /\ canvas.gradients = 2 /\ fadeGradientAlpha = DefaultFadeGradientAlpha

(* 1 - (1 - n/d)^3 as a fraction of integers *)
CubicOut(t) ==
  Fin(t.d * t.d * t.d - (t.d - t.n) * (t.d - t.n) * (t.d - t.n), t.d * t.d * t.d)

(* C19: every call easeOutCubic(p), p on the grid in [0, 1], returns
   1 - (1 - p)^3, which is 0 at p = 0 and 1 at p = 1, and of two calls the
   one with the larger argument returns the larger value. *)
C19_EaseOutCubicMonotone ==
  [][easing' # <<>> =>
       /\ easing'[2] = CubicOut(easing'[1])
       /\ (easing'[1] = I(0) => easing'[2] = I(0))
       /\ (easing'[1] = I(1) => easing'[2] = I(1))
       /\ (easing # <<>> /\ Lt(easing[1], easing'[1]) => Lt(easing[2], easing'[2]))]_vars

(* easeOutCubic(1/2) = 7/8 *)
C19_EasedHalfway == easing = <<Half, Fin(7, 8)>>

(* a spin with a valid configuration, short enough to reach highlight before
   MaxTime: one frame starts it, the next is past its duration, the third
   past the pause *)
ShortValidSpin ==
  /\ SpinCall(call) /\ mode = "spin" /\ speed > 0 /\ Positive(spinDist)
  /\ \A step \in FrameSteps \ {0} :
       Lt(spinT, Seconds(step)) /\ now + 3 * step <= MaxTime

(* C20: after a spin() with a valid configuration, made in any mode, the
   engine reaches highlight (which it enters from pause only) unless a
   further call is made, provided requested frames keep being delivered. *)
C20_SpinReachesHighlight ==
  \A c \in 1 .. MaxCalls :
    (ShortValidSpin /\ calls = c) ~> (mode = "highlight" \/ calls # c)

(* spin() called in idle after the frame chain has lapsed: the mode is spin
   and no frame request is pending *)
C20_SpinWithoutFrame ==
  ShortValidSpin /\ resume.via = "spin" /\ pending = 0

(* C21: startLoop() clears the elapsed-time anchor; a frame processed in
   loop mode with the anchor cleared leaves the offset as it is, and any
   other frame processed in loop mode measures from the previous frame's
   timestamp and adds speed x (timestamp - previous timestamp)/1000. *)
C21_LoopAdvancesBySpeed ==
  [][/\ (call'.op = "startLoop" => prevTS' = Null /\ offset' = offset)
     /\ (call'.op = "tick" /\ mode = "loop" =>
           IF call.op \in {"constructor", "startLoop"} \/ prevTS = Null
           THEN offset' = offset
           ELSE /\ prevTS = now
                /\ offset' = Add(offset, Mul(I(speed), Fin(now' - now, 1000))))]_vars

(* the second loop frame after a startLoop() that followed a completed spin:
   the offset is the spin distance plus 1.6 s at the loop speed, whatever time
   was spent in spin and pause *)
C21_LoopAfterSpin ==
  /\ call.op = "tick" /\ mode = "loop" /\ pauseStart # Null
  /\ Positive(spinDist) /\ offset = Add(spinDist, Mul(I(speed), Fin(1600, 1000)))

(* C22: _resize is never executed while the mode is spin, and lineHeight
   does not change from the spin() call to the frame that ends the spin. *)
C22_NoResizeDuringSpin ==
  [][/\ (call'.op = "resize" => mode # "spin")
     /\ (mode = "spin" /\ mode' \in {"spin", "pause"} => lineHeight' = lineHeight)]_vars

(* a resize in the middle of a spin, after which the spin distance no longer
   ends on the target row *)
C22_ResizedMidSpin ==
  /\ call.op = "resize" /\ mode = "spin" /\ spinStart # Null
  /\ Positive(spinDist)
  /\ Rem(spinDist, Cycle(lineHeight)) # Mul(I(targetIdx), lineHeight)

(* C23: at most one frame request is pending in every reachable state; a
   startLoop() made while one is pending requests no other, and a frame
   leaves at most the one request it makes itself. *)
C23_OneFramePending ==
  /\ pending \in {0, 1}
  /\ [][/\ pending' \in {0, 1}
        /\ (call'.op = "startLoop" /\ pending = 1 => pending' = 1)
        /\ (call'.op = "tick" => pending' = IF mode' = "idle" THEN 0 ELSE 1)]_vars

(* a startLoop() after the one of the constructor and one more call, before
   any frame: the frame requested at construction is still the only one
   pending *)
C23_StartLoopRepeated ==
  call.op = "startLoop" /\ calls = 2 /\ now = 0 /\ mode = "loop" /\ pending = 1

(* the rows of frame f within half a lineHeight of the vertical centre *)
CentredRows(f) ==
  { r \in Rows(f) : Lt(AbsN(Sub(r.y, CenterY)), Div(f.lineHeight, I(2))) }

(* C24: in pause and in highlight, lineHeight being what spin() read, the
   offset is spinDistance and leaves the remainder targetIndex x lineHeight
   modulo cycleLength, and the frame painted in that mode has exactly one
   row within half a lineHeight of the centre, showing item targetIndex. *)
C24_StoppedOnTarget ==
  mode \in {"pause", "highlight"} /\ lineHeight = spinLineHeight =>
    /\ offset = spinDist
    /\ Rem(offset, Cycle(lineHeight)) = Mul(I(targetIdx), lineHeight)
    /\ (canvas.mode = mode /\ canvas.lineHeight = lineHeight =>
          /\ Cardinality(CentredRows(canvas)) = 1
          /\ \A r \in CentredRows(canvas) : r.idx = targetIdx)

(* a highlight frame after spin(-1): the row of item 4 is the one in the
   centre *)
C24_LastItemCentred ==
  /\ call.op = "tick" /\ mode = "highlight" /\ lineHeight = spinLineHeight
  /\ targetIdx = 4 /\ offset = Mul(I(4), lineHeight)
  /\ \E r \in CentredRows(canvas) : r.idx = 4 /\ r.zoomed

(* C25: after every spin() call (rotations >= 0, positive speed) spinDistance
   is positive and the deceleration and the spin duration are finite and
   positive, and every offset a frame computes in spin mode is a finite
   number. *)
C25_SpinDistancePositive ==
  /\ (mode = "spin" /\ speed > 0 =>
        /\ Positive(spinDist)
        /\ Finite(accel) /\ Positive(accel)
        /\ Finite(spinT) /\ Positive(spinT))
  /\ (call.op = "tick" /\ mode \in {"spin", "pause"} => Finite(offset))

(* the first frame of a spin of distance 0: the offset is NaN *)
C25_ZeroDistanceSpinFrame ==
  /\ call.op = "tick" /\ mode = "spin" /\ spinDist = I(0)
  /\ accel = Inf(1) /\ spinT = I(0) /\ offset = NaN

====
